---- MODULE Spec2Model ----
(***************************************************************************)
(* Model of the prompt-template page (Tools/WebServer/pages/Prompts.tsx):  *)
(* the React component state, the operator's intents, and the asynchronous *)
(* DataService requests the handlers issue and later resume from.          *)
(*                                                                         *)
(* File names and the draft name are sequences of one-character strings,   *)
(* so that String.replace / endsWith / trim are computed, not assumed.     *)
(* null and '' are both falsy in the handlers' guards; the unset selection *)
(* is the empty sequence and the unset category is the empty string.       *)
(*                                                                         *)
(* A click handler runs to its first await in one step; React flushes the  *)
(* effect of a click before the next event, so setActiveCategory and the   *)
(* effect on [activeCategory] are one step too.  The persistence service   *)
(* serves a request in the step that settles its promise, and a rejected   *)
(* request has written nothing.  The Filter box only hides list entries    *)
(* and is left out.  console.error is not an operator notification and     *)
(* leaves no trace in the state; alert() does, in notice.                  *)
(***************************************************************************)
EXTENDS Integers, Sequences, FiniteSets, TLC

VARIABLES
    categories,       \* useState<string[]>([])
    activeCategory,   \* useState<string>('')
    prompts,          \* useState<string[]>([])
    selectedPrompt,   \* useState<string | null>(null)
    content,          \* useState<string>('')
    loading,          \* useState(false)
    saving,           \* useState(false)
    isCreating,       \* useState(false)
    newName,          \* useState('')
    config,           \* useGlobal().config, replaced by setConfig
    inflight,         \* DataService promises not yet settled
    store,            \* the persistence service: category -> templates
    savedConfig,      \* the configuration the persistence service holds
    notice,           \* the alert() the last step raised, "none" without one
    lastGet,          \* the most recent template request of the current selection
    createRun,        \* the handleCreate run no operator intent has followed yet
    ops               \* operator intents so far

vars == <<categories, activeCategory, prompts, selectedPrompt, content, loading,
          saving, isCreating, newName, config, inflight, store, savedConfig,
          notice, lastGet, createRun, ops>>

----------------------------------------------------------------------------
(* Bounds *)

MaxInflight == 2
MaxOps == 5

----------------------------------------------------------------------------
(* Strings as character sequences *)

DotTxt == <<".", "t", "x", "t">>
DotJson == <<".", "j", "s", "o", "n">>

A_TXT == <<"a">> \o DotTxt
B_JSON == <<"b">> \o DotJson
P_TXT == <<"p">> \o DotTxt
G_TXT == <<"g">> \o DotTxt
S_TXT == <<"s">> \o DotTxt
FOO == <<"f">>
FOO_TXT == <<"f">> \o DotTxt
BLANK == <<" ">>

NoPrompt == <<>>

\* s.endsWith(suffix)
EndsWith(s, suffix) ==
    /\ Len(s) >= Len(suffix)
    /\ SubSeq(s, Len(s) - Len(suffix) + 1, Len(s)) = suffix

\* s.indexOf(pat), 1-based; 0 when absent
IndexOf(s, pat) ==
    LET hits == {i \in 1..(Len(s) - Len(pat) + 1) : SubSeq(s, i, i + Len(pat) - 1) = pat}
    IN  IF hits = {} THEN 0 ELSE CHOOSE i \in hits : \A j \in hits : i <= j

\* s.replace(pat, ''): String.replace with a string pattern removes the
\* first occurrence only, wherever it is
ReplaceFirst(s, pat) ==
    LET i == IndexOf(s, pat)
    IN  IF i = 0 THEN s
        ELSE SubSeq(s, 1, i - 1) \o SubSeq(s, i + Len(pat), Len(s))

\* faulty variant: the name is tested without trim()
TrimIsEmpty_NoTrim(s) == s = <<>>

\* s.trim() is empty: only whitespace characters
TrimIsEmpty(s) == \A i \in 1..Len(s) : s[i] = " "

\* p.replace(/\.(txt|json)$/, '') of the list rendering
DisplayName(p) ==
    IF EndsWith(p, DotTxt) THEN SubSeq(p, 1, Len(p) - Len(DotTxt))
    ELSE IF EndsWith(p, DotJson) THEN SubSeq(p, 1, Len(p) - Len(DotJson))
    ELSE p

----------------------------------------------------------------------------
(* The persistence service behind DataService *)

StoreCats == {"System", "Translate", "Polishing", "Glossary"}
CatList == <<"System", "Translate", "Polishing", "Glossary">>
Texts == {"", "Hello", "Hello World"}

InitStore ==
    [c \in StoreCats |->
        CASE c = "System"    -> <<[name |-> S_TXT, text |-> "Hello"]>>
          [] c = "Translate" -> <<[name |-> A_TXT, text |-> "Hello"],
                                  [name |-> B_JSON, text |-> "Hello"]>>
          [] c = "Polishing" -> <<[name |-> P_TXT, text |-> "Hello"]>>
          [] OTHER           -> <<[name |-> G_TXT, text |-> "Hello"]>>]

\* listTemplates(category)
StoreList(cat) == [i \in 1..Len(store[cat]) |-> store[cat][i].name]

StoreHas(cat, f) ==
    /\ cat \in StoreCats
    /\ \E i \in 1..Len(store[cat]) : store[cat][i].name = f

\* getContent(category, filename)
StoreText(cat, f) ==
    LET i == CHOOSE j \in 1..Len(store[cat]) : store[cat][j].name = f
    IN  store[cat][i].text

\* saveContent(category, filename, text) is refused for the protected and
\* for an unknown category
StoreWritable(cat) == cat \in StoreCats /\ cat # "System"

\* saveContent: overwrite when present, create when absent
StoreWrite(cat, f, t) ==
    IF StoreHas(cat, f)
    THEN [store EXCEPT ![cat] =
            [i \in 1..Len(@) |-> IF @[i].name = f THEN [name |-> f, text |-> t] ELSE @[i]]]
    ELSE [store EXCEPT ![cat] = Append(@, [name |-> f, text |-> t])]

----------------------------------------------------------------------------
(* The external configuration *)

NoRecord == [last_selected_id |-> <<>>, prompt_content |-> ""]

InitialConfig ==
    [translation_prompt_selection |-> NoRecord,
     polishing_prompt_selection   |-> NoRecord,
     target_language              |-> "en"]

NullConfig == [isNull |-> TRUE]

----------------------------------------------------------------------------
(* Requests in flight *)

Req(id, op, origin, cat, file, text, cfg) ==
    [id |-> id, op |-> op, origin |-> origin, cat |-> cat, file |-> file,
     text |-> text, cfg |-> cfg]

FreeId == CHOOSE i \in 1..(MaxInflight + 1) :
              /\ \A r \in inflight : r.id # i
              /\ \A j \in 1..(i - 1) : \E r \in inflight : r.id = j

CanIssue == Cardinality(inflight) < MaxInflight

\* the operator acts at most MaxOps times
CanAct == ops < MaxOps
Acted == ops' = ops + 1

Pending(op) == {r \in inflight : r.op = op}

\* createRun follows one handleCreate from its invocation to its last
\* continuation, as long as the operator does nothing else: the id of its
\* pending promise and whether its list refresh has succeeded
NoRun == [id |-> 0, listed |-> FALSE]

\* createRun after the promise r settled with the given outcome
RunAfter(r, outcome) ==
    IF createRun.id # r.id THEN createRun
    ELSE CASE outcome = "saved"  -> createRun
           [] outcome = "listed" -> [createRun EXCEPT !.listed = TRUE]
           [] OTHER              -> NoRun

----------------------------------------------------------------------------
(* Derived render values *)

isSystem == activeCategory = "System"

\* faulty variant: Translate/Polishing test replaced by "not the protected category"
isSelectionTarget_AnyWritable == activeCategory # "System"

isSelectionTarget == activeCategory \in {"Translate", "Polishing"}

\* faulty variant: the Save button rendered without the !isSystem test
SaveVisible_NoSystemCheck == selectedPrompt # NoPrompt

\* {selectedPrompt && !isSystem && (...)}: the Save button is rendered
SaveVisible == selectedPrompt # NoPrompt /\ ~isSystem
\* {isSelectionTarget && (...)} inside it: the Apply button is rendered
ApplyVisible == SaveVisible /\ isSelectionTarget

----------------------------------------------------------------------------
Init ==
    /\ categories = <<>>
    /\ activeCategory = ""
    /\ prompts = <<>>
    /\ selectedPrompt = NoPrompt
    /\ content = ""
    /\ loading = FALSE
    /\ saving = FALSE
    /\ isCreating = FALSE
    /\ newName = <<>>
    \* the host application has loaded its configuration
    /\ config = InitialConfig
    /\ savedConfig = InitialConfig
    /\ store = InitStore
    /\ notice = "none"
    /\ lastGet = <<>>
    /\ createRun = NoRun
    /\ ops = 0
    \* useEffect(() => { loadCategories() }, []) has run
    /\ inflight = {Req(1, "listCategories", "mount", "", <<>>, "", NullConfig)}

----------------------------------------------------------------------------
(* Operator intents *)

Range(seq) == {seq[i] : i \in 1..Len(seq)}

\* onClick={() => setActiveCategory(cat)} followed by the effect on
\* [activeCategory]: loadPrompts(cat), setSelectedPrompt(null), setContent('').
\* Setting the state to its current value re-renders nothing and runs no effect.
SelectCategory(cat) ==
    /\ CanAct
    /\ Acted
    /\ createRun' = NoRun
    /\ cat \in Range(categories)
    /\ IF cat = activeCategory
       THEN UNCHANGED <<activeCategory, loading, inflight, selectedPrompt,
                        content, lastGet>>
       ELSE /\ CanIssue
            /\ activeCategory' = cat
            /\ loading' = TRUE
            /\ inflight' = inflight \cup
                  {Req(FreeId, "listPrompts", "effect", cat, <<>>, "", NullConfig)}
            /\ selectedPrompt' = NoPrompt
            /\ content' = ""
            /\ lastGet' = <<>>
    /\ notice' = "none"
    /\ UNCHANGED <<categories, prompts, saving, isCreating, newName, config,
                   store, savedConfig>>

\* onClick={() => loadPromptContent(p)} on an entry of the rendered list
ClickPrompt(p) ==
    /\ CanAct
    /\ Acted
    /\ createRun' = NoRun
    /\ p \in Range(prompts)
    /\ CanIssue
    /\ loading' = TRUE
    /\ inflight' = inflight \cup {Req(FreeId, "getContent", "click", activeCategory, p, "", NullConfig)}
    /\ lastGet' = <<activeCategory, p>>
    /\ notice' = "none"
    /\ UNCHANGED <<categories, activeCategory, prompts, selectedPrompt, content,
                   saving, isCreating, newName, config, store, savedConfig>>

\* faulty variant: the textarea without readOnly={isSystem}
EditContent_IgnoresReadOnly(t) ==
    /\ CanAct
    /\ Acted
    /\ createRun' = NoRun
    /\ selectedPrompt # NoPrompt
    /\ t # content
    /\ content' = t
    /\ notice' = "none"
    /\ UNCHANGED <<categories, activeCategory, prompts, selectedPrompt, loading,
                   saving, isCreating, newName, config, inflight, store,
                   savedConfig, lastGet>>

\* onChange={e => setContent(e.target.value)}; the textarea is rendered only
\* with a selection and is readOnly for the protected category
EditContent(t) ==
    /\ CanAct
    /\ Acted
    /\ createRun' = NoRun
    /\ selectedPrompt # NoPrompt
    /\ ~isSystem
    /\ t # content
    /\ content' = t
    /\ notice' = "none"
    /\ UNCHANGED <<categories, activeCategory, prompts, selectedPrompt, loading,
                   saving, isCreating, newName, config, inflight, store,
                   savedConfig, lastGet>>

\* faulty variant: the request is sent without the edit buffer
HandleSave_EmptyPayload ==
    /\ CanAct
    /\ Acted
    /\ createRun' = NoRun
    /\ SaveVisible
    /\ ~saving
    /\ selectedPrompt # NoPrompt
    /\ CanIssue
    /\ saving' = TRUE
    /\ inflight' = inflight \cup
          {Req(FreeId, "saveContent", "save", activeCategory, selectedPrompt, "", NullConfig)}
    /\ notice' = "none"
    /\ UNCHANGED <<categories, activeCategory, prompts, selectedPrompt, content,
                   loading, isCreating, newName, config, store, savedConfig,
                   lastGet>>

\* handleSave, reachable through the Save button (disabled={saving})
HandleSave ==
    /\ CanAct
    /\ Acted
    /\ createRun' = NoRun
    /\ SaveVisible
    /\ ~saving
    /\ selectedPrompt # NoPrompt
    /\ CanIssue
    /\ saving' = TRUE
    /\ inflight' = inflight \cup
          {Req(FreeId, "saveContent", "save", activeCategory, selectedPrompt, content, NullConfig)}
    /\ notice' = "none"
    /\ UNCHANGED <<categories, activeCategory, prompts, selectedPrompt, content,
                   loading, isCreating, newName, config, store, savedConfig, lastGet>>

\* const key = activeCategory === 'Polishing' ? ... : ...
BindingKey(cat) ==
    IF cat = "Polishing" THEN "polishing_prompt_selection"
    ELSE "translation_prompt_selection"

\* { last_selected_id: selectedPrompt.replace('.txt', ''), prompt_content: content }
BindingRecord(filename, text) ==
    [last_selected_id |-> ReplaceFirst(filename, DotTxt), prompt_content |-> text]

\* { ...config, [key]: record }
NewConfig(cfg, cat, filename, text) ==
    [cfg EXCEPT ![BindingKey(cat)] = BindingRecord(filename, text)]

\* handleApply, reachable through the Apply button (never disabled)
HandleApply ==
    /\ CanAct
    /\ Acted
    /\ createRun' = NoRun
    /\ ApplyVisible
    /\ selectedPrompt # NoPrompt
    /\ config # NullConfig
    /\ CanIssue
    /\ inflight' = inflight \cup
          {Req(FreeId, "saveConfig", "apply", activeCategory, selectedPrompt, content,
               NewConfig(config, activeCategory, selectedPrompt, content))}
    /\ notice' = "none"
    /\ UNCHANGED <<categories, activeCategory, prompts, selectedPrompt, content,
                   loading, saving, isCreating, newName, config, store,
                   savedConfig, lastGet>>

\* onClick={() => setIsCreating(true)}, rendered when !isSystem
OpenCreate ==
    /\ CanAct
    /\ Acted
    /\ createRun' = NoRun
    /\ ~isSystem
    /\ ~isCreating
    /\ isCreating' = TRUE
    /\ notice' = "none"
    /\ UNCHANGED <<categories, activeCategory, prompts, selectedPrompt, content,
                   loading, saving, newName, config, inflight, store,
                   savedConfig, lastGet>>

\* onClick={() => setIsCreating(false)} of the overlay
CancelCreate ==
    /\ CanAct
    /\ Acted
    /\ createRun' = NoRun
    /\ isCreating
    /\ isCreating' = FALSE
    /\ notice' = "none"
    /\ UNCHANGED <<categories, activeCategory, prompts, selectedPrompt, content,
                   loading, saving, newName, config, inflight, store,
                   savedConfig, lastGet>>

NewNames == {<<>>, BLANK, FOO, FOO_TXT}

\* onChange={e => setNewName(e.target.value)} of the overlay input
TypeNewName(n) ==
    /\ CanAct
    /\ Acted
    /\ createRun' = NoRun
    /\ isCreating
    /\ n # newName
    /\ newName' = n
    /\ notice' = "none"
    /\ UNCHANGED <<categories, activeCategory, prompts, selectedPrompt, content,
                   loading, saving, isCreating, config, inflight, store,
                   savedConfig, lastGet>>

\* const filename = newName.endsWith('.txt') ? newName : newName + '.txt'
CreateFilename(n) == IF EndsWith(n, DotTxt) THEN n ELSE n \o DotTxt

\* handleCreate up to its first await; with a blank name it returns at once
HandleCreate ==
    /\ CanAct
    /\ Acted
    /\ isCreating
    /\ IF TrimIsEmpty(newName)
       THEN UNCHANGED inflight /\ createRun' = NoRun
       ELSE /\ CanIssue
            /\ inflight' = inflight \cup
                  {Req(FreeId, "saveContent", "create", activeCategory,
                       CreateFilename(newName), "", NullConfig)}
            /\ createRun' = [id |-> FreeId, listed |-> FALSE]
    /\ notice' = "none"
    /\ UNCHANGED <<categories, activeCategory, prompts, selectedPrompt, content,
                   loading, saving, isCreating, newName, config, store,
                   savedConfig, lastGet>>

----------------------------------------------------------------------------
(* Continuations: a DataService promise settles and the handler resumes *)

\* loadCategories, try branch; setActiveCategory then runs the effect
ListCategoriesOk(r) ==
    /\ UNCHANGED ops
    /\ createRun' = RunAfter(r, "other")
    /\ r \in Pending("listCategories")
    /\ categories' = CatList
    /\ IF Len(CatList) > 0 /\ activeCategory = ""
       THEN LET cat == IF "Translate" \in Range(CatList) THEN "Translate" ELSE CatList[1]
            IN  /\ activeCategory' = cat
                /\ loading' = TRUE
                /\ inflight' = (inflight \ {r}) \cup
                      {Req(r.id, "listPrompts", "effect", cat, <<>>, "", NullConfig)}
                /\ selectedPrompt' = NoPrompt
                /\ content' = ""
                /\ lastGet' = <<>>
       ELSE /\ inflight' = inflight \ {r}
            /\ UNCHANGED <<activeCategory, loading, selectedPrompt, content, lastGet>>
    /\ notice' = "none"
    /\ UNCHANGED <<prompts, saving, isCreating, newName, config, store,
                   savedConfig>>

\* loadCategories, catch branch: console.error only
ListCategoriesFail(r) ==
    /\ UNCHANGED ops
    /\ createRun' = RunAfter(r, "other")
    /\ r \in Pending("listCategories")
    /\ inflight' = inflight \ {r}
    /\ notice' = "none"
    /\ UNCHANGED <<categories, activeCategory, prompts, selectedPrompt, content,
                   loading, saving, isCreating, newName, config, store,
                   savedConfig, lastGet>>

\* handleCreate after `await loadPrompts(activeCategory)`, which never
\* rejects: setIsCreating(false), setNewName(''), loadPromptContent(filename)
\* with the category the handler was invoked under
AfterListPrompts(r) ==
    IF r.origin = "create"
    THEN /\ isCreating' = FALSE
         /\ newName' = <<>>
         /\ loading' = TRUE
         /\ inflight' = (inflight \ {r}) \cup
               {Req(r.id, "getContent", "create", r.cat, r.file, "", NullConfig)}
         /\ lastGet' = <<r.cat, r.file>>
    ELSE /\ loading' = FALSE
         /\ inflight' = inflight \ {r}
         /\ UNCHANGED <<isCreating, newName, lastGet>>

\* loadPrompts, try branch: setPrompts(list) for whatever category was asked
ListPromptsOk(r) ==
    /\ UNCHANGED ops
    /\ createRun' = RunAfter(r, "listed")
    /\ r \in Pending("listPrompts")
    /\ r.cat \in StoreCats
    /\ prompts' = StoreList(r.cat)
    /\ AfterListPrompts(r)
    /\ notice' = "none"
    /\ UNCHANGED <<categories, activeCategory, selectedPrompt, content, saving,
                   config, store, savedConfig>>

\* loadPrompts, catch branch: console.error only
ListPromptsFail(r) ==
    /\ UNCHANGED ops
    /\ createRun' = RunAfter(r, "failed")
    /\ r \in Pending("listPrompts")
    /\ AfterListPrompts(r)
    /\ notice' = "none"
    /\ UNCHANGED <<categories, activeCategory, prompts, selectedPrompt, content,
                   saving, config, store, savedConfig>>

\* loadPromptContent, try branch
GetContentOk(r) ==
    /\ UNCHANGED ops
    /\ createRun' = RunAfter(r, "done")
    /\ r \in Pending("getContent")
    /\ StoreHas(r.cat, r.file)
    /\ content' = StoreText(r.cat, r.file)
    /\ selectedPrompt' = r.file
    /\ isCreating' = FALSE
    /\ loading' = FALSE
    /\ inflight' = inflight \ {r}
    /\ notice' = "none"
    /\ UNCHANGED <<categories, activeCategory, prompts, saving, newName, config,
                   store, savedConfig, lastGet>>

\* faulty variant: setLoading(false) on the success path only, not in finally
GetContentFail_KeepsLoading(r) ==
    /\ UNCHANGED ops
    /\ createRun' = RunAfter(r, "failed")
    /\ r \in Pending("getContent")
    /\ inflight' = inflight \ {r}
    /\ notice' = "none"
    /\ UNCHANGED <<categories, activeCategory, prompts, selectedPrompt, content,
                   loading, saving, isCreating, newName, config, store,
                   savedConfig, lastGet>>

\* loadPromptContent, catch branch: console.error only
GetContentFail(r) ==
    /\ UNCHANGED ops
    /\ createRun' = RunAfter(r, "failed")
    /\ r \in Pending("getContent")
    /\ loading' = FALSE
    /\ inflight' = inflight \ {r}
    /\ notice' = "none"
    /\ UNCHANGED <<categories, activeCategory, prompts, selectedPrompt, content,
                   saving, isCreating, newName, config, store, savedConfig, lastGet>>

\* faulty variant: the Binding Record follows the template it was taken from, a
\* save of that template rewrites its prompt_content
SaveOk_LiveBinding(r) ==
    /\ UNCHANGED ops
    /\ createRun' = RunAfter(r, "other")
    /\ r \in Pending("saveContent")
    /\ r.origin = "save"
    /\ StoreWritable(r.cat)
    /\ store' = StoreWrite(r.cat, r.file, r.text)
    /\ config' = IF config[BindingKey(r.cat)].last_selected_id = ReplaceFirst(r.file, DotTxt)
                 THEN [config EXCEPT ![BindingKey(r.cat)].prompt_content = r.text]
                 ELSE config
    /\ notice' = "Saved successfully"
    /\ saving' = FALSE
    /\ inflight' = inflight \ {r}
    /\ UNCHANGED <<categories, activeCategory, prompts, selectedPrompt, content,
                   loading, isCreating, newName, savedConfig, lastGet>>

\* handleSave, try branch
SaveOk(r) ==
    /\ UNCHANGED ops
    /\ createRun' = RunAfter(r, "other")
    /\ r \in Pending("saveContent")
    /\ r.origin = "save"
    /\ StoreWritable(r.cat)
    /\ store' = StoreWrite(r.cat, r.file, r.text)
    /\ notice' = "Saved successfully"
    /\ saving' = FALSE
    /\ inflight' = inflight \ {r}
    /\ UNCHANGED <<categories, activeCategory, prompts, selectedPrompt, content,
                   loading, isCreating, newName, config, savedConfig, lastGet>>

\* faulty variant: the catch branch also resets the edit buffer
SaveFail_ClearsBuffer(r) ==
    /\ UNCHANGED ops
    /\ createRun' = RunAfter(r, "other")
    /\ r \in Pending("saveContent")
    /\ r.origin = "save"
    /\ notice' = "Save failed"
    /\ saving' = FALSE
    /\ content' = ""
    /\ inflight' = inflight \ {r}
    /\ UNCHANGED <<categories, activeCategory, prompts, selectedPrompt,
                   loading, isCreating, newName, config, store, savedConfig,
                   lastGet>>

\* handleSave, catch branch
SaveFail(r) ==
    /\ UNCHANGED ops
    /\ createRun' = RunAfter(r, "other")
    /\ r \in Pending("saveContent")
    /\ r.origin = "save"
    /\ notice' = "Save failed"
    /\ saving' = FALSE
    /\ inflight' = inflight \ {r}
    /\ UNCHANGED <<categories, activeCategory, prompts, selectedPrompt, content,
                   loading, isCreating, newName, config, store, savedConfig,
                   lastGet>>

\* handleCreate after `await savePromptContent(...)`: loadPrompts(activeCategory)
CreateSaveOk(r) ==
    /\ UNCHANGED ops
    /\ createRun' = RunAfter(r, "saved")
    /\ r \in Pending("saveContent")
    /\ r.origin = "create"
    /\ StoreWritable(r.cat)
    /\ store' = StoreWrite(r.cat, r.file, r.text)
    /\ loading' = TRUE
    /\ inflight' = (inflight \ {r}) \cup
          {Req(r.id, "listPrompts", "create", r.cat, r.file, "", NullConfig)}
    /\ notice' = "none"
    /\ UNCHANGED <<categories, activeCategory, prompts, selectedPrompt, content,
                   saving, isCreating, newName, config, savedConfig,
                   lastGet>>

\* handleCreate, catch branch
CreateSaveFail(r) ==
    /\ UNCHANGED ops
    /\ createRun' = RunAfter(r, "failed")
    /\ r \in Pending("saveContent")
    /\ r.origin = "create"
    /\ notice' = "Create failed"
    /\ inflight' = inflight \ {r}
    /\ UNCHANGED <<categories, activeCategory, prompts, selectedPrompt, content,
                   loading, saving, isCreating, newName, config, store,
                   savedConfig, lastGet>>

\* handleApply, try branch: setConfig(newConfig)
ApplyOk(r) ==
    /\ UNCHANGED ops
    /\ createRun' = RunAfter(r, "other")
    /\ r \in Pending("saveConfig")
    /\ savedConfig' = r.cfg
    /\ config' = r.cfg
    /\ notice' = "Prompt applied"
    /\ inflight' = inflight \ {r}
    /\ UNCHANGED <<categories, activeCategory, prompts, selectedPrompt, content,
                   loading, saving, isCreating, newName, store, lastGet>>

\* faulty variant: setConfig(newConfig) runs although saveConfig rejected
ApplyFail_Optimistic(r) ==
    /\ UNCHANGED ops
    /\ createRun' = RunAfter(r, "other")
    /\ r \in Pending("saveConfig")
    /\ config' = r.cfg
    /\ notice' = "Apply failed"
    /\ inflight' = inflight \ {r}
    /\ UNCHANGED <<categories, activeCategory, prompts, selectedPrompt, content,
                   loading, saving, isCreating, newName, store,
                   savedConfig, lastGet>>

\* handleApply, catch branch
ApplyFail(r) ==
    /\ UNCHANGED ops
    /\ createRun' = RunAfter(r, "other")
    /\ r \in Pending("saveConfig")
    /\ notice' = "Apply failed"
    /\ inflight' = inflight \ {r}
    /\ UNCHANGED <<categories, activeCategory, prompts, selectedPrompt, content,
                   loading, saving, isCreating, newName, config, store,
                   savedConfig, lastGet>>

----------------------------------------------------------------------------
Next ==
    \/ \E cat \in StoreCats : SelectCategory(cat)
    \/ \E p \in Range(prompts) : ClickPrompt(p)
    \/ \E t \in Texts : EditContent(t)
    \/ HandleSave
    \/ HandleApply
    \/ OpenCreate
    \/ CancelCreate
    \/ \E n \in NewNames : TypeNewName(n)
    \/ HandleCreate
    \/ \E r \in inflight : ListCategoriesOk(r)
    \/ \E r \in inflight : ListCategoriesFail(r)
    \/ \E r \in inflight : ListPromptsOk(r)
    \/ \E r \in inflight : ListPromptsFail(r)
    \/ \E r \in inflight : GetContentOk(r)
    \/ \E r \in inflight : GetContentFail(r)
    \/ \E r \in inflight : SaveOk(r)
    \/ \E r \in inflight : SaveFail(r)
    \/ \E r \in inflight : CreateSaveOk(r)
    \/ \E r \in inflight : CreateSaveFail(r)
    \/ \E r \in inflight : ApplyOk(r)
    \/ \E r \in inflight : ApplyFail(r)

Spec == Init /\ [][Next]_vars

\* the promise of request r settles, one way or the other
Resolve(r) ==
    \/ ListCategoriesOk(r) \/ ListCategoriesFail(r)
    \/ ListPromptsOk(r)    \/ ListPromptsFail(r)
    \/ GetContentOk(r)     \/ GetContentFail(r)
    \/ SaveOk(r)           \/ SaveFail(r)
    \/ CreateSaveOk(r)     \/ CreateSaveFail(r)
    \/ ApplyOk(r)          \/ ApplyFail(r)

\* every awaited promise settles: no request stays in flight forever
EveryRequestResolves ==
    \A id \in 1..MaxInflight : WF_vars(\E r \in inflight : r.id = id /\ Resolve(r))

FairSpec == Spec /\ EveryRequestResolves

----------------------------------------------------------------------------
(* Properties *)

SaveRequests == {r \in Pending("saveContent") : r.origin = "save"}

\* C1: a listTemplates response whose category is no longer the active
\* category is discarded: delivering it leaves the displayed list as it was.
C1_StaleListDiscarded ==
    [][\A r \in inflight :
          (ListPromptsOk(r) /\ r.cat # activeCategory) => prompts' = prompts]_vars

\* C2: a getContent response that is not the answer to the most recent
\* template request of the current selection changes neither the selected
\* template nor the edit buffer.
C2_StaleContentDiscarded ==
    [][\A r \in inflight :
          (GetContentOk(r) /\ <<r.cat, r.file>> # lastGet)
              => UNCHANGED <<selectedPrompt, content>>]_vars

C4_AtMostOneInFlight ==
    /\ Cardinality(SaveRequests) <= 1
    /\ Cardinality(Pending("saveConfig")) <= 1

\* C5: when the saveContent request of save() fails, the edit buffer, the
\* selection, the active category and the displayed list are as before the
\* failure, saving is false again and "Save failed" is shown.
C5_SaveFailsClosed ==
    [][\A r \in SaveRequests :
          SaveFail(r)
              => /\ UNCHANGED <<content, selectedPrompt, activeCategory, prompts>>
                 /\ saving' = FALSE
                 /\ notice' = "Save failed"]_vars

\* C5 witness: a save of an edited buffer has just failed and the edit is
\* still in the buffer, unsaved.
C5_Witness ==
    /\ notice = "Save failed"
    /\ ~saving
    /\ selectedPrompt = A_TXT
    /\ content = "Hello World"
    /\ StoreText("Translate", A_TXT) = "Hello"

\* C6: every saveContent request of save() carries a category other than
\* "System" and a set file name, and when it is issued it carries the active
\* category, the selected template and the edit buffer of that moment.
C6_SaveRequestValid ==
    [][\A r \in inflight' :
          (r.op = "saveContent" /\ r.origin = "save")
              => /\ r.cat # "System"
                 /\ r.file # NoPrompt
                 /\ r \notin inflight =>
                       /\ r.cat = activeCategory
                       /\ r.file = selectedPrompt
                       /\ r.text = content]_vars

\* C6 witness: a save is in flight although the protected category has
\* been selected since (it was issued under a writable one).
C6_Witness ==
    /\ isSystem
    /\ \E r \in SaveRequests : r.cat = "Translate" /\ r.text = "Hello World"

\* C7: the step in which a saveConfig request of apply() fails leaves the
\* cached configuration (every key) and the persisted one as they were and
\* shows "Apply failed".
C7_ApplyFailKeepsConfig ==
    [][\A r \in Pending("saveConfig") :
          ApplyFail(r)
              => /\ config' = config
                 /\ savedConfig' = savedConfig
                 /\ notice' = "Apply failed"]_vars

\* C7 witness: an apply has just failed and no Binding Record was written.
C7_Witness ==
    /\ notice = "Apply failed"
    /\ config = InitialConfig
    /\ savedConfig = InitialConfig
    /\ Pending("saveConfig") = {}

\* C8: a saveConfig request is issued only with a template selected and
\* "Translate" or "Polishing" active; under "Translate" it differs from the
\* cached configuration in translation_prompt_selection only, under
\* "Polishing" in polishing_prompt_selection only.
C8_ApplyOnlySelectionTargets ==
    [][\A r \in inflight' \ inflight :
          r.op = "saveConfig" =>
              /\ selectedPrompt # NoPrompt
              /\ activeCategory \in {"Translate", "Polishing"}
              /\ activeCategory = "Translate" =>
                    r.cfg = [config EXCEPT !.translation_prompt_selection =
                                [last_selected_id |-> ReplaceFirst(selectedPrompt, DotTxt),
                                 prompt_content |-> content]]
              /\ activeCategory = "Polishing" =>
                    r.cfg = [config EXCEPT !.polishing_prompt_selection =
                                [last_selected_id |-> ReplaceFirst(selectedPrompt, DotTxt),
                                 prompt_content |-> content]]]_vars

\* C8 witness: an apply issued under "Polishing" is in flight and writes
\* the polishing record only.
C8_Witness ==
    \E r \in Pending("saveConfig") :
        /\ r.cat = "Polishing"
        /\ r.cfg.polishing_prompt_selection # NoRecord
        /\ r.cfg.translation_prompt_selection = NoRecord

\* the file name without its trailing extension (from the last "." on)
StripExtension(f) ==
    LET dots == {i \in 1..Len(f) : f[i] = "."}
    IN  IF dots = {} THEN f
        ELSE SubSeq(f, 1, (CHOOSE i \in dots : \A j \in dots : j <= i) - 1)

\* C9: the record apply() builds holds the selected file name with exactly
\* its trailing extension removed and the edit buffer of the invocation.
C9_IdIsNameWithoutExtension ==
    \A r \in Pending("saveConfig") :
        r.cfg[BindingKey(r.cat)] =
            [last_selected_id |-> StripExtension(r.file), prompt_content |-> r.text]

\* C10: a successful getContent sets the selection to the requested file
\* and the buffer to the returned text; a failed one leaves selection,
\* buffer, active category and list as they were, clears loading and
\* raises a notification.
C10_SelectTemplateResult ==
    [][\A r \in inflight :
          /\ GetContentOk(r) =>
                /\ selectedPrompt' = r.file
                /\ content' = StoreText(r.cat, r.file)
          /\ GetContentFail(r) =>
                /\ UNCHANGED <<selectedPrompt, content, activeCategory, prompts>>
                /\ loading' = FALSE
                /\ notice' # "none"]_vars

\* the component state other than the pending promises
ui == <<categories, activeCategory, prompts, selectedPrompt, content, loading,
        saving, isCreating, newName, config>>

CreateRequests == {r \in Pending("saveContent") : r.origin = "create"}

\* a name that is empty or consists of whitespace only
IsBlank(n) == \A i \in 1..Len(n) : n[i] = " "

\* C11: create with a blank name issues no request and changes no state;
\* with any other name the saveContent request carries the name itself when
\* it ends in ".txt" and the name with ".txt" appended otherwise, so "f" and
\* "f.txt" both give "f.txt".
C11_CreateValidation ==
    [][/\ (HandleCreate /\ IsBlank(newName)) =>
              UNCHANGED <<ui, inflight, store, savedConfig>>
       /\ \A r \in inflight' \ inflight :
              (r.op = "saveContent" /\ r.origin = "create") =>
                  /\ ~IsBlank(newName)
                  /\ r.text = ""
                  /\ EndsWith(newName, DotTxt) => r.file = newName
                  /\ ~EndsWith(newName, DotTxt) => r.file = newName \o DotTxt
                  /\ newName \in {FOO, FOO_TXT} => r.file = FOO_TXT]_vars

\* C11 witness: create("f") is pending as a save of "f.txt".
C11_Witness ==
    /\ newName = FOO
    /\ \E r \in CreateRequests : r.file = FOO_TXT /\ r.text = ""

\* C12: create saves first, refreshes the list only after the save
\* succeeded and requests the new template only after the refresh resolved;
\* a failed save issues nothing further, raises "Create failed" and leaves
\* list, selection and buffer alone; and a run whose three requests all
\* succeed, with no operator intent since its invocation, ends with the new
\* name in the displayed list, selected, with an empty buffer.
C12_CreateSequence ==
    [][/\ \A q \in inflight' \ inflight :
              /\ (q.op = "listPrompts" /\ q.origin = "create") =>
                    \E r \in CreateRequests :
                        /\ r \notin inflight'
                        /\ q.cat = r.cat /\ q.file = r.file
                        /\ \E i \in 1..Len(store'[r.cat]) :
                              store'[r.cat][i] = [name |-> r.file, text |-> ""]
              /\ (q.op = "getContent" /\ q.origin = "create") =>
                    \E r \in Pending("listPrompts") :
                        /\ r.origin = "create"
                        /\ r \notin inflight'
                        /\ q.cat = r.cat /\ q.file = r.file
       /\ \A r \in CreateRequests :
              CreateSaveFail(r) =>
                  /\ inflight' = inflight \ {r}
                  /\ notice' = "Create failed"
                  /\ UNCHANGED <<prompts, selectedPrompt, content>>
       /\ \A r \in Pending("getContent") :
              (GetContentOk(r) /\ createRun = [id |-> r.id, listed |-> TRUE]) =>
                  /\ r.file \in Range(prompts')
                  /\ selectedPrompt' = r.file
                  /\ content' = ""]_vars

\* what selectCategory(cat) leaves behind: cat active, no selection, an
\* empty buffer and a newly issued listTemplates(cat)
CategoryReset(cat) ==
    /\ activeCategory' = cat
    /\ selectedPrompt' = NoPrompt
    /\ content' = ""
    /\ \E q \in inflight' \ inflight : q.op = "listPrompts" /\ q.cat = cat

\* C13: selecting any category of the list, the active one
\* included, resets the selection and issues listTemplates for it.
C13_EveryCategoryResets ==
    [][\A cat \in StoreCats : SelectCategory(cat) => CategoryReset(cat)]_vars

\* s is an initial part of t
IsPrefix(s, t) == Len(s) <= Len(t) /\ s = SubSeq(t, 1, Len(s))

\* the displayed list is empty or a list the store returns for the active
\* category
ListOfActiveCategory ==
    \/ prompts = <<>>
    \/ activeCategory \in StoreCats /\ IsPrefix(prompts, StoreList(activeCategory))

\* C14: when a listTemplates request fails and leaves no listTemplates
\* request in flight, the displayed list is empty or a list the store has
\* returned for the active category.
C14_FailedListKeepsCatalog ==
    [][\A r \in Pending("listPrompts") :
          (ListPromptsFail(r) /\ Pending("listPrompts") = {r}) =>
              ListOfActiveCategory']_vars

\* C15: a step that ends under "System" changes the buffer only by clearing
\* it on the selection of "System" or by setting it from a getContent
\* response; the operator's edit does not act there.
C15_SystemBufferReadOnly ==
    [][(activeCategory' = "System" /\ content' # content) =>
          \/ /\ activeCategory # "System"
             /\ content' = ""
             /\ selectedPrompt' = NoPrompt
          \/ \E r \in Pending("getContent") :
                /\ r \notin inflight'
                /\ StoreHas(r.cat, r.file)
                /\ content' = StoreText(r.cat, r.file)
                /\ selectedPrompt' = r.file]_vars

\* C15 witness: a template of "System" is on display.
C15_Witness ==
    /\ isSystem
    /\ selectedPrompt = S_TXT
    /\ content = "Hello"
    /\ inflight = {}

BindingKeys == {"translation_prompt_selection", "polishing_prompt_selection"}

\* C17: a successful apply writes the record of its own category only: the
\* other category's Binding Record, cached and persisted, stays as it is.
C17_ApplyKeepsOtherRecord ==
    [][\A r \in Pending("saveConfig") :
          ApplyOk(r) =>
              \A k \in BindingKeys \ {BindingKey(r.cat)} :
                  config'[k] = config[k] /\ savedConfig'[k] = savedConfig[k]]_vars

\* C18: no saveContent request of create carries the category "System".
C18_CreateNotInSystem ==
    \A r \in CreateRequests : r.cat # "System"

\* C19: loading is true whenever a listTemplates or getContent request is
\* in flight.
C19_LoadingWhileInFlight ==
    (Pending("listPrompts") \cup Pending("getContent")) # {} => loading

\* C20: if every request resolves, saving and loading do not stay true:
\* whenever one of them is true it is false again later.
C20_BusyFlagsClear ==
    /\ saving ~> ~saving
    /\ loading ~> ~loading

\* C20 witness: a save and a load are both awaited, both flags are up.
C20_Witness ==
    /\ saving
    /\ loading
    /\ SaveRequests # {}
    /\ Pending("getContent") # {}

====
